---- MODULE Spec2Model ----
(***************************************************************************)
(* A model of fetch_data.py: the collection script that reads four inline  *)
(* databases of a document-store page and eight market indices and writes  *)
(* data.json.                                                              *)
(*                                                                         *)
(* Text is modelled as a sequence of symbols.  The symbols the code's      *)
(* string operations single out (white space, line breaks, the pipe, the   *)
(* signs, digits, the dot, ...) are single characters; any other symbol    *)
(* ("A", "B", "SamsungElec", ...) stands for a run of ordinary characters  *)
(* that no operation of the code tells apart.  The empty string is <<>>.   *)
(***************************************************************************)
EXTENDS Integers, Sequences, FiniteSets, TLC

VARIABLES
    pc,          \* position of the run (main) or of the function under study
    fn_in,       \* argument(s) handed to the function under study
    fn_out,      \* what that function returned
    configured,  \* NOTION_TOKEN and NOTION_PAGE_ID are both set
    store,       \* the remote document store: discovery answer and query scripts
    dbs,         \* fetch_notion's local dbs
    result,      \* fetch_notion's local result
    output,      \* main's local output
    data_json    \* contents of data.json

vars == <<pc, fn_in, fn_out, configured, store, dbs, result, output, data_json>>

(***************************************************************************)
(* Symbols                                                                 *)
(***************************************************************************)
SP  == " "
TAB == "\t"
NL  == "\n"
CR  == "\r"
PIPE == "|"
BULLET == "U+2022"
MIDDOT == "U+00B7"
DASH == "U+2014"

Digits == {"0", "1", "2", "3", "4", "5", "6", "7", "8", "9"}

\* the characters str.strip() removes, as far as the alphabets below hold them
Whitespace == {SP, TAB, NL, CR}

\* the argument of lstrip in the two line loops
EnumChars == Digits \cup {".", "-", BULLET, MIDDOT, ")", SP}

None == "None"
\* the answer of a remote call that times out or raises
FAIL == [failed |-> TRUE]

(***************************************************************************)
(* Python's str and list operations                                        *)
(***************************************************************************)
RECURSIVE LStrip(_, _)
LStrip(s, chars) ==
    IF s = <<>> THEN <<>>
    ELSE IF Head(s) \in chars THEN LStrip(Tail(s), chars) ELSE s

RECURSIVE RStrip(_, _)
RStrip(s, chars) ==
    IF s = <<>> THEN <<>>
    ELSE IF s[Len(s)] \in chars THEN RStrip(SubSeq(s, 1, Len(s) - 1), chars) ELSE s

Strip(s) == RStrip(LStrip(s, Whitespace), Whitespace)

Remove(s, c) == SelectSeq(s, LAMBDA x : x # c)

\* s.split(sep): always at least one piece
RECURSIVE Split(_, _)
Split(s, sep) ==
    IF \A i \in 1..Len(s) : s[i] # sep THEN <<s>>
    ELSE LET i == CHOOSE k \in 1..Len(s) :
                      s[k] = sep /\ \A j \in 1..(k - 1) : s[j] # sep
         IN  <<SubSeq(s, 1, i - 1)>> \o Split(SubSeq(s, i + 1, Len(s)), sep)

RECURSIVE Join(_, _)
Join(items, sep) ==
    IF items = <<>> THEN <<>>
    ELSE IF Len(items) = 1 THEN items[1]
    ELSE items[1] \o <<sep>> \o Join(Tail(items), sep)

StartsWith(s, chars) == s # <<>> /\ Head(s) \in chars

Map(f(_), s) == [i \in 1..Len(s) |-> f(s[i])]

\* s[:n]
Take(s, n) == SubSeq(s, 1, IF Len(s) < n THEN Len(s) ELSE n)

\* d.update(u) on mappings
Update(d, u) ==
    [k \in DOMAIN d \cup DOMAIN u |-> IF k \in DOMAIN u THEN u[k] ELSE d[k]]

\* all sequences over S of length at most n
RECURSIVE SeqsUpTo(_, _)
SeqsUpTo(S, n) ==
    IF n = 0 THEN {<<>>}
    ELSE LET shorter == SeqsUpTo(S, n - 1)
         IN  shorter \cup {Append(s, c) : s \in {t \in shorter : Len(t) = n - 1}, c \in S}

(***************************************************************************)
(* The line loop of parse_db1 and parse_db3 (the text segmenter)           *)
(***************************************************************************)
\* line.strip().lstrip("0123456789.-•·) ")
SegmentLine(line) == LStrip(Strip(line), EnumChars)

\* a variant that keeps the lines the prefix stripping emptied
TextSegmenterKeepEmpty(raw) == Map(SegmentLine, Split(Remove(raw, CR), NL))

TextSegmenter(raw) ==
    SelectSeq(Map(SegmentLine, Split(Remove(raw, CR), NL)), LAMBDA l : l # <<>>)

(***************************************************************************)
(* Property extraction (get_prop, safe_float)                              *)
(*                                                                         *)
(* A row is its "properties" mapping: column name -> property, and a       *)
(* property is a mapping with one key, its type: [rich_text |-> fragments],*)
(* [title |-> fragments], [select |-> [name |-> text]], or, for a select   *)
(* that is null, [select |-> [null |-> TRUE]].  A fragment is the          *)
(* plain_text of one rich-text run.  Column names are                      *)
(* written in Latin letters:                                               *)
(*   nalja = 날짜, sijang_gangdo = 시장 강도, ai_3jul_yoyak = AI 3줄 요약, *)
(*   jongmokmyeong = 종목명, judo_sector = 주도 섹터,                      *)
(*   teugi_jongmok = 특이 종목, news_jemok = 뉴스 제목,                    *)
(*   ai_news_yoyak = AI 뉴스 요약, chucheon_deunggeup = 추천등급,          *)
(*   tuja_gigan = 투자기간, chucheon_sayu = 추천사유                       *)
(***************************************************************************)
RECURSIVE Concat(_)
Concat(frags) == IF frags = <<>> THEN <<>> ELSE Head(frags) \o Concat(Tail(frags))

get_prop(row, col, ptype) ==
    IF col \notin DOMAIN row \/ DOMAIN row[col] = {}
    THEN (IF ptype # "number" THEN <<>> ELSE None)
    ELSE LET p   == row[col]
             has == ptype \in DOMAIN p
         IN  CASE ptype \in {"title", "rich_text"} ->
                      Concat(IF has THEN p[ptype] ELSE <<>>)
               [] ptype = "select" ->
                      (IF has /\ "name" \in DOMAIN p[ptype] THEN p[ptype].name ELSE <<>>)
               [] ptype = "number" -> (IF has THEN p[ptype] ELSE None)
               [] OTHER -> <<>>

DigitVal(c) == CHOOSE n \in 0..9 : ToString(n) = c

RECURSIVE DigitsVal(_)
DigitsVal(ds) ==
    IF ds = <<>> THEN 0 ELSE DigitsVal(SubSeq(ds, 1, Len(ds) - 1)) * 10 + DigitVal(ds[Len(ds)])

RECURSIVE Normal(_)
\* one representative <<mantissa, decimals>> per number
Normal(v) ==
    IF v[2] > 0 /\ v[1] % 10 = 0 THEN Normal(<<v[1] \div 10, v[2] - 1>>) ELSE v

\* A float is <<m, d>>, standing for m / 10^d.  float() is modelled on
\* optionally signed decimal numerals; every other text it is given here
\* (empty, words, inner spaces or signs) makes it raise, as in Python.
safe_float(s) ==
    LET t     == Strip(Remove(Remove(Remove(s, ","), "+"), "%"))
        neg   == StartsWith(t, {"-"})
        body  == IF neg THEN Tail(t) ELSE t
        parts == Split(body, ".")
        int   == parts[1]
        frac  == IF Len(parts) = 2 THEN parts[2] ELSE <<>>
        valid == /\ Len(parts) <= 2
                 /\ \A i \in 1..Len(int) : int[i] \in Digits
                 /\ \A i \in 1..Len(frac) : frac[i] \in Digits
                 /\ Len(int) + Len(frac) >= 1
        m     == DigitsVal(int \o frac)
    IN  IF valid THEN Normal(<<IF neg THEN 0 - m ELSE m, Len(frac)>>) ELSE <<0, 0>>

(***************************************************************************)
(* query_by_date                                                           *)
(*                                                                         *)
(* A database is modelled by the script of its provider: the sequence of   *)
(* answers it gives to successive query requests.  An answer is FAIL (the  *)
(* request times out or the transport or the JSON decoding raises) or      *)
(* [failed |-> FALSE, results, has_more, next_cursor].  The value is [raised, rows, requests]*)
(* where requests lists the start_cursor of each request body sent (None   *)
(* when the body holds no start_cursor).                                   *)
(***************************************************************************)
RECURSIVE QueryLoopStale(_, _, _, _, _, _)
\* a variant whose cursor is never advanced: every request is the first one
QueryLoopStale(script, i, cursor, start_cursor, rows, requests) ==
    LET body == None
        data == script[i]
    IN  IF data.failed
        THEN [raised |-> TRUE, rows |-> <<>>, requests |-> Append(requests, body)]
        ELSE IF ~data.has_more
        THEN [raised |-> FALSE, rows |-> rows \o data.results,
              requests |-> Append(requests, body)]
        ELSE QueryLoopStale(script, i + 1, None, body,
                            rows \o data.results, Append(requests, body))

RECURSIVE QueryLoop(_, _, _, _, _, _)
\* one pass of the while loop: the i-th request, with the loop's cursor, the
\* start_cursor the body holds so far, and the rows and requests so far
QueryLoop(script, i, cursor, start_cursor, rows, requests) ==
    LET body == IF cursor \notin {None, ""} THEN cursor ELSE start_cursor
        data == script[i]
    IN  IF data.failed
        THEN [raised |-> TRUE, rows |-> <<>>, requests |-> Append(requests, body)]
        ELSE IF ~data.has_more
        THEN [raised |-> FALSE, rows |-> rows \o data.results,
              requests |-> Append(requests, body)]
        ELSE QueryLoop(script, i + 1, data.next_cursor, body,
                       rows \o data.results, Append(requests, body))

query_by_date_stale(script) == QueryLoopStale(script, 1, None, None, <<>>, <<>>)

query_by_date(script) == QueryLoop(script, 1, None, None, <<>>, <<>>)

(***************************************************************************)
(* DB 1: parse_db1                                                         *)
(* A normalizer's value is [raised |-> TRUE] when an exception leaves it,  *)
(* and [raised |-> FALSE, value |-> the mapping it returns] otherwise.     *)
(***************************************************************************)
Db1Empty == [summary |-> <<>>, market_strength |-> <<>>]

parse_db1(script) ==
    LET q == query_by_date(script)
    IN  IF q.raised THEN [raised |-> TRUE]
        ELSE IF q.rows = <<>> THEN [raised |-> FALSE, value |-> Db1Empty]
        ELSE LET row      == q.rows[1]
                 strength == get_prop(row, "sijang_gangdo", "select")
                 raw      == get_prop(row, "ai_3jul_yoyak", "rich_text")
             IN  [raised |-> FALSE,
                  value  |-> [summary |-> Take(TextSegmenter(raw), 3),
                              market_strength |-> strength]]

(***************************************************************************)
(* DB 2: parse_pipe, parse_db2                                             *)
(***************************************************************************)
parse_pipe(text) ==
    Map(LAMBDA line : Map(Strip, Split(line, PIPE)),
        SelectSeq(Split(Remove(text, CR), NL),
                  LAMBDA line : \E i \in 1..Len(line) : line[i] = PIPE))

\* a variant that leaves the change field as written
SignedNever(chg) == chg

\* chg after "if chg and not chg.startswith(("+", "-")): chg = f"+{chg}""
Signed(chg) ==
    IF chg # <<>> /\ ~StartsWith(chg, {"+", "-"}) THEN <<"+">> \o chg ELSE chg

SectorOf(parts) ==
    LET chg == Signed(parts[2])
    IN  [name |-> parts[1], change |-> chg, value |-> safe_float(chg)]

StockOf(parts) ==
    [name |-> parts[1], reason |-> parts[2], price |-> parts[3], change |-> parts[4],
     pos |-> ~StartsWith(Strip(parts[4]), {"-"})]

\* a variant of the sector filter that forgets the name test
SectorRowsAnyName(sec_raw) ==
    SelectSeq(parse_pipe(sec_raw), LAMBDA parts : Len(parts) >= 2)

SectorRows(sec_raw) ==
    SelectSeq(parse_pipe(sec_raw), LAMBDA parts : Len(parts) >= 2 /\ parts[1] # <<>>)

StockRows(stk_raw) ==
    SelectSeq(parse_pipe(stk_raw), LAMBDA parts : Len(parts) >= 4 /\ parts[1] # <<>>)

Db2Empty == [sectors |-> <<>>, stocks |-> <<>>]

parse_db2(script) ==
    LET q == query_by_date(script)
    IN  IF q.raised THEN [raised |-> TRUE]
        ELSE IF q.rows = <<>> THEN [raised |-> FALSE, value |-> Db2Empty]
        ELSE LET row     == q.rows[1]
                 sec_raw == get_prop(row, "judo_sector", "rich_text")
                 stk_raw == get_prop(row, "teugi_jongmok", "rich_text")
             IN  [raised |-> FALSE,
                  value  |-> [sectors |-> Map(SectorOf, SectorRows(sec_raw)),
                              stocks  |-> Map(StockOf, StockRows(stk_raw))]]

(***************************************************************************)
(* DB 3: parse_db3 (one request, its failure caught inside)                *)
(***************************************************************************)
Db3Empty == [news |-> <<>>]

NewsOf(line) == [time |-> <<>>, headline |-> line, summary |-> <<>>, tag |-> <<>>]

\* what parse_db3 makes of an answered request
Db3Value(data) ==
    IF data.results = <<>> THEN Db3Empty
    ELSE LET row == data.results[1]
             raw == Strip(get_prop(row, "ai_news_yoyak", "rich_text"))
         IN  IF raw = <<>> THEN Db3Empty
             ELSE [news |-> Map(NewsOf, TextSegmenter(raw))]

\* a variant without the try/except around the request
parse_db3_uncaught(script) ==
    IF script[1].failed THEN [raised |-> TRUE]
    ELSE [raised |-> FALSE, value |-> Db3Value(script[1])]

parse_db3(script) ==
    IF script[1].failed THEN [raised |-> FALSE, value |-> Db3Empty]
    ELSE [raised |-> FALSE, value |-> Db3Value(script[1])]

(***************************************************************************)
(* DB 4: parse_db4                                                         *)
(***************************************************************************)
MaxRecs == 5

Or(a, b) == IF a # <<>> THEN a ELSE b

\* the entry made for the row at index i (from 0) of rows[:5]
RecOf(row, i) ==
    [name      |-> get_prop(row, "jongmokmyeong", "rich_text"),
     grade     |-> Or(get_prop(row, "chucheon_deunggeup", "select"), <<"B">>),
     timeframe |-> Or(get_prop(row, "tuja_gigan", "select"), <<DASH>>),
     reason    |-> get_prop(row, "chucheon_sayu", "rich_text"),
     featured  |-> (i = 0)]

RecsOf(rows) ==
    LET capped == Take(rows, MaxRecs)
    IN  SelectSeq([i \in 1..Len(capped) |-> RecOf(capped[i], i - 1)],
                  LAMBDA rec : rec.name # <<>>)

Db4Empty == [recommendations |-> <<>>]

parse_db4(script) ==
    LET q == query_by_date(script)
    IN  IF q.raised THEN [raised |-> TRUE]
        ELSE IF q.rows = <<>> THEN [raised |-> FALSE, value |-> Db4Empty]
        ELSE [raised |-> FALSE, value |-> [recommendations |-> RecsOf(q.rows)]]

(***************************************************************************)
(* Market indices: fetch_yahoo, fetch_indices                              *)
(*                                                                         *)
(* Prices are integers in thousandths, percentages in hundredths.  The     *)
(* feed's answer to one symbol is FAIL (the request or the decoding of its *)
(* body raises) or [failed |-> FALSE, regularMarketPrice,                  *)
(* chartPreviousClose, previousClose], where 0 also stands for a key that  *)
(* is missing or null.                                                     *)
(***************************************************************************)
\* n / d rounded to the nearest integer, ties to even, d > 0
RoundHalfEven(n, d) ==
    LET q == n \div d
        r == n % d
    IN  IF 2 * r < d THEN q
        ELSE IF 2 * r > d THEN q + 1
        ELSE IF q % 2 = 0 THEN q ELSE q + 1

\* round(x, dec) on thousandths
Round(x, dec) == LET unit == 10 ^ (3 - dec) IN RoundHalfEven(x, unit) * unit

ZeroQuote == [price |-> 0, change |-> 0, pct |-> 0, pos |-> TRUE]

\* a variant whose fallback quote is marked as a fall
fetch_yahoo_neg(answer, dec) ==
    IF answer.failed THEN [price |-> 0, change |-> 0, pct |-> 0, pos |-> FALSE]
    ELSE LET price  == answer.regularMarketPrice
             prev   == IF answer.chartPreviousClose # 0 THEN answer.chartPreviousClose
                       ELSE IF answer.previousClose # 0 THEN answer.previousClose
                       ELSE price
             change == price - prev
         IN  [price  |-> Round(price, dec),
              change |-> Round(change, dec),
              pct    |-> IF prev # 0 THEN RoundHalfEven(change * 10000, prev) ELSE 0,
              pos    |-> change >= 0]

fetch_yahoo(answer, dec) ==
    IF answer.failed THEN ZeroQuote
    ELSE LET price  == answer.regularMarketPrice
             prev   == IF answer.chartPreviousClose # 0 THEN answer.chartPreviousClose
                       ELSE IF answer.previousClose # 0 THEN answer.previousClose
                       ELSE price
             change == price - prev
         IN  [price  |-> Round(price, dec),
              change |-> Round(change, dec),
              pct    |-> IF prev # 0 THEN RoundHalfEven(change * 10000, prev) ELSE 0,
              pos    |-> change >= 0]

TARGETS ==
    << [key |-> "kospi",  sym |-> "^KS11", dec |-> 0],
       [key |-> "kosdaq", sym |-> "^KQ11", dec |-> 0],
       [key |-> "sp500",  sym |-> "^GSPC", dec |-> 0],
       [key |-> "nasdaq", sym |-> "^IXIC", dec |-> 0],
       [key |-> "usdkrw", sym |-> "KRW=X", dec |-> 1],
       [key |-> "us10y",  sym |-> "^TNX",  dec |-> 3],
       [key |-> "wti",    sym |-> "CL=F",  dec |-> 2],
       [key |-> "gold",   sym |-> "GC=F",  dec |-> 0] >>

Symbols == {TARGETS[i].sym : i \in 1..Len(TARGETS)}

RECURSIVE FetchIndicesLoop(_, _, _, _)
\* the for loop from its i-th target on; feed maps a symbol to the feed's
\* answer, lookups lists the symbols asked for so far
FetchIndicesLoop(feed, i, indices, lookups) ==
    IF i > Len(TARGETS) THEN [indices |-> indices, lookups |-> lookups]
    ELSE LET t == TARGETS[i]
             v == fetch_yahoo(feed[t.sym], t.dec)
         IN  FetchIndicesLoop(feed, i + 1, Update(indices, t.key :> v),
                              Append(lookups, t.sym))

fetch_indices(feed) == FetchIndicesLoop(feed, 1, <<>>, <<>>)

(***************************************************************************)
(* Sample data: _sample_rec, SAMPLE_NOTION.  Each Korean text is one       *)
(* ordinary symbol; numbers and signs are written out.                     *)
(***************************************************************************)
_sample_rec ==
    << [name |-> <<"SamsungElec">>, grade |-> <<"A", "+">>, timeframe |-> <<"mid">>,
        reason |-> <<"sample_reason_1">>, featured |-> TRUE],
       [name |-> <<"SKhynix">>, grade |-> <<"A">>, timeframe |-> <<"short">>,
        reason |-> <<"sample_reason_2">>, featured |-> FALSE],
       [name |-> <<"NAVER">>, grade |-> <<"B", "+">>, timeframe |-> <<"long">>,
        reason |-> <<"sample_reason_3">>, featured |-> FALSE] >>

SampleSector(name, sign, a, b, c) ==
    [name |-> <<name>>, change |-> <<sign, a, ".", b, c, "%">>,
     value |-> safe_float(<<sign, a, ".", b, c, "%">>)]

SampleStock(name, reason, price, sign, a, b, c) ==
    [name |-> <<name>>, reason |-> <<reason>>, price |-> price,
     change |-> <<sign, a, ".", b, c, "%">>, pos |-> sign # "-"]

SampleNews(h, m, headline, tag) ==
    [time |-> h \o <<":">> \o m, headline |-> <<headline>>, summary |-> <<>>,
     tag |-> <<tag>>]

SAMPLE_NOTION ==
    [summary |-> << <<"sample_summary_1">>, <<"sample_summary_2">>, <<"sample_summary_3">> >>,
     market_strength |-> <<"gangse">>,
     sectors |-> << SampleSector("semiconductor", "+", "3", "4", "2"),
                    SampleSector("ai_software", "+", "2", "8", "1"),
                    SampleSector("battery", "+", "2", "2", "0"),
                    SampleSector("bio", "+", "1", "5", "8"),
                    SampleSector("finance", "-", "0", "8", "4"),
                    SampleSector("construction", "-", "1", "4", "3") >>,
     stocks |-> << SampleStock("SKhynix", "sample_why_1",
                               <<"1", "8", "5", ",", "4", "0", "0">>, "+", "5", "2", "3"),
                   SampleStock("HanmiSemi", "sample_why_2",
                               <<"9", "4", ",", "8", "0", "0">>, "+", "8", "7", "1"),
                   SampleStock("SamsungSDI", "sample_why_3",
                               <<"3", "1", "2", ",", "0", "0", "0">>, "-", "3", "1", "2"),
                   SampleStock("KakaoPay", "sample_why_4",
                               <<"2", "4", ",", "6", "5", "0">>, "+", "4", "4", "6") >>,
     news |-> << SampleNews(<<"0", "9">>, <<"0", "2">>, "sample_headline_1", "monetary"),
                 SampleNews(<<"1", "0">>, <<"1", "5">>, "sample_headline_2", "semiconductor"),
                 SampleNews(<<"1", "1">>, <<"3", "3">>, "sample_headline_3", "policy"),
                 SampleNews(<<"1", "3">>, <<"4", "7">>, "sample_headline_4", "auto") >>,
     recommendations |-> _sample_rec]

(***************************************************************************)
(* Building blocks of the inputs: properties, rows, provider answers       *)
(***************************************************************************)
RichText(s) == [rich_text |-> <<s>>]
Select(s)   == [select |-> [name |-> s]]
NoSelect    == [select |-> [null |-> TRUE]]

LastPage(rows) ==
    [failed |-> FALSE, results |-> rows, has_more |-> FALSE, next_cursor |-> None]
MorePage(rows, cur) ==
    [failed |-> FALSE, results |-> rows, has_more |-> TRUE, next_cursor |-> cur]

Db2Row(sec_raw, stk_raw) ==
    [judo_sector |-> RichText(sec_raw), teugi_jongmok |-> RichText(stk_raw)]

(***************************************************************************)
(* The document stores a run of main is checked against                    *)
(***************************************************************************)
MaxDbs == 4

Db1Row ==
    [nalja |-> [title |-> <<<<"today">>>>],
     sijang_gangdo |-> Select(<<"yakse">>),
     ai_3jul_yoyak |-> RichText(<<"1", ".", SP, "A", NL, "-", SP, "B", NL, NL, "C", NL, "D">>)]

LiveDb2Row ==
    Db2Row(<<"A", SP, PIPE, SP, "3", NL, "x", NL, "B", PIPE, "-", "3">>,
           <<"A", PIPE, "B", PIPE, "3", PIPE, "-", "3">>)

Db3Row ==
    [news_jemok |-> [title |-> <<<<"today">>, <<SP, "headlines">>>>],
     ai_news_yoyak |-> RichText(<<SP, "1", ")", SP, "A", NL, BULLET, "B", NL>>)]

Db4Rows ==
    << [jongmokmyeong |-> RichText(<<"B">>), chucheon_deunggeup |-> Select(<<"A", "+">>),
        tuja_gigan |-> Select(<<"short">>), chucheon_sayu |-> RichText(<<"why">>)],
       [jongmokmyeong |-> RichText(<<"A">>), chucheon_deunggeup |-> NoSelect] >>

\* per database: the query fails, no row for today, today's row(s)
ScriptsOf(rows) == {<<FAIL>>, <<LastPage(<<>>)>>, <<LastPage(rows)>>}

Db1Scripts == ScriptsOf(<<Db1Row>>)
Db2Scripts == ScriptsOf(<<LiveDb2Row>>)
Db3Scripts == ScriptsOf(<<Db3Row>>)
\* the query of DB 4 may also fail on its second page
Db4Scripts == ScriptsOf(Db4Rows) \cup {<<MorePage(Db4Rows, "c1"), FAIL>>}

Stores ==
    {[discovery |-> d, scripts |-> <<s1, s2, s3, s4>>] :
        d  \in {FAIL} \cup {[failed |-> FALSE, n |-> n] : n \in 0..MaxDbs},
        s1 \in Db1Scripts, s2 \in Db2Scripts, s3 \in Db3Scripts, s4 \in Db4Scripts}

NoStore == [discovery |-> FAIL, scripts |-> <<>>]

(***************************************************************************)
(* get_child_dbs, fetch_notion and main, step by step                      *)
(*                                                                         *)
(* store.discovery is the answer to the listing of the page's blocks: FAIL *)
(* or [failed |-> FALSE, n |-> the number of child databases]; the         *)
(* databases are known by their position 1..n.  store.scripts[i] is the    *)
(* provider script of the i-th database.                                   *)
(***************************************************************************)
get_child_dbs(answer) ==
    IF answer.failed THEN [raised |-> TRUE]
    ELSE [raised |-> FALSE, value |-> [i \in 1..answer.n |-> i]]

Timestamps == [updated_at |-> "utc_now", updated_kst |-> "kst_now"]

\* What each normalizer returns for each script a store may hold.  The
\* tables are constants, evaluated once, so that a step looks its call up.
Db1Returns == [s \in Db1Scripts |-> parse_db1(s)]
Db2Returns == [s \in Db2Scripts |-> parse_db2(s)]
Db3Returns == [s \in Db3Scripts |-> parse_db3(s)]
Db4Returns == [s \in Db4Scripts |-> parse_db4(s)]

\* what fetch_notion puts in place of a database that was not discovered
Db1Missing == [summary |-> <<>>, market_strength |-> <<>>]
Db2Missing == [sectors |-> <<>>, stocks |-> <<>>]
Db3Missing == [news |-> <<>>]
Db4MissingEmpty == [recommendations |-> <<>>]
Db4Missing == [recommendations |-> _sample_rec]

\* a variant of main without the handler below: the exception ends the run
NotionFailedAbort ==
    /\ pc' = "aborted"
    /\ UNCHANGED output

\* a variant of the handler below that keeps what fetch_notion had collected
NotionFailedPartial ==
    /\ output' = Update(Update(output, SAMPLE_NOTION), result)
    /\ pc' = "indices"

\* main's "except Exception": the sample dataset replaces the whole result
NotionFailed ==
    /\ output' = Update(output, SAMPLE_NOTION)
    /\ pc' = "indices"

MainStart ==
    /\ pc = "start"
    /\ IF configured
       THEN /\ output' = Timestamps
            /\ pc' = "discover"
       ELSE /\ output' = Update(Timestamps, SAMPLE_NOTION)
            /\ pc' = "indices"
    /\ UNCHANGED <<fn_in, fn_out, configured, store, dbs, result, data_json>>

Discover ==
    /\ pc = "discover"
    /\ LET r == get_child_dbs(store.discovery)
       IN  IF r.raised
           THEN NotionFailed /\ UNCHANGED <<dbs, result>>
           ELSE /\ dbs' = r.value
                /\ result' = <<>>
                /\ pc' = "db1"
                /\ UNCHANGED output
    /\ UNCHANGED <<fn_in, fn_out, configured, store, data_json>>

Db1Step ==
    /\ pc = "db1"
    /\ IF Len(dbs) >= 1
       THEN LET r == Db1Returns[store.scripts[dbs[1]]]
            IN  IF r.raised
                THEN NotionFailed /\ UNCHANGED result
                ELSE /\ result' = Update(result, r.value)
                     /\ pc' = "db2"
                     /\ UNCHANGED output
       ELSE /\ result' = Update(result, Db1Missing)
            /\ pc' = "db2"
            /\ UNCHANGED output
    /\ UNCHANGED <<fn_in, fn_out, configured, store, dbs, data_json>>

Db2Step ==
    /\ pc = "db2"
    /\ IF Len(dbs) >= 2
       THEN LET r == Db2Returns[store.scripts[dbs[2]]]
            IN  IF r.raised
                THEN NotionFailed /\ UNCHANGED result
                ELSE /\ result' = Update(result, r.value)
                     /\ pc' = "db3"
                     /\ UNCHANGED output
       ELSE /\ result' = Update(result, Db2Missing)
            /\ pc' = "db3"
            /\ UNCHANGED output
    /\ UNCHANGED <<fn_in, fn_out, configured, store, dbs, data_json>>

Db3Step ==
    /\ pc = "db3"
    /\ IF Len(dbs) >= 3
       THEN LET r == Db3Returns[store.scripts[dbs[3]]]
            IN  IF r.raised
                THEN NotionFailed /\ UNCHANGED result
                ELSE /\ result' = Update(result, r.value)
                     /\ pc' = "db4"
                     /\ UNCHANGED output
       ELSE /\ result' = Update(result, Db3Missing)
            /\ pc' = "db4"
            /\ UNCHANGED output
    /\ UNCHANGED <<fn_in, fn_out, configured, store, dbs, data_json>>

\* the last step of fetch_notion, its return and main's output.update(...)
Db4Step ==
    /\ pc = "db4"
    /\ IF Len(dbs) >= 4
       THEN LET r == Db4Returns[store.scripts[dbs[4]]]
            IN  IF r.raised
                THEN NotionFailed /\ UNCHANGED result
                ELSE /\ result' = Update(result, r.value)
                     /\ output' = Update(output, result')
                     /\ pc' = "indices"
       ELSE /\ result' = Update(result, Db4Missing)
            /\ output' = Update(output, result')
            /\ pc' = "indices"
    /\ UNCHANGED <<fn_in, fn_out, configured, store, dbs, data_json>>

\* output["indices"] = fetch_indices(), against the answers in feed
IndicesStep(feed) ==
    /\ output' = Update(output, "indices" :> fetch_indices(feed).indices)
    /\ pc' = "write"
    /\ UNCHANGED <<fn_in, fn_out, configured, store, dbs, result, data_json>>

\* json.dump(output, f)
WriteStep ==
    /\ pc = "write"
    /\ data_json' = output
    /\ pc' = "done"
    /\ UNCHANGED <<fn_in, fn_out, configured, store, dbs, result, output>>

(***************************************************************************)
(* Specification of the text segmenter on every short text                 *)
(***************************************************************************)
MaxTextLen == 4
SegAlphabet == {"1", ".", SP, TAB, NL, "A"}

Idle ==
    /\ configured = FALSE
    /\ store = None
    /\ dbs = <<>>
    /\ result = <<>>
    /\ output = <<>>
    /\ data_json = None

SegInit ==
    /\ pc = "seg_call"
    /\ fn_in \in SeqsUpTo(SegAlphabet, MaxTextLen)
    /\ fn_out = None
    /\ Idle

SegApply ==
    /\ pc = "seg_call"
    /\ fn_out' = TextSegmenter(fn_in)
    /\ pc' = "seg_done"
    /\ UNCHANGED <<fn_in, configured, store, dbs, result, output, data_json>>

SegNext == SegApply

SpecSeg == SegInit /\ [][SegNext]_vars

RECURSIVE IsSubSeq(_, _)
\* a is b with some elements left out
IsSubSeq(a, b) ==
    IF a = <<>> THEN TRUE
    ELSE IF b = <<>> THEN FALSE
    ELSE IF Head(a) = Head(b) THEN IsSubSeq(Tail(a), Tail(b))
    ELSE IsSubSeq(a, Tail(b))

SegBasics ==
    /\ \A i \in 1..Len(fn_out) : fn_out[i] # <<>>
    /\ IsSubSeq(Join(fn_out, NL), fn_in)
    /\ (\A i \in 1..Len(fn_in) : fn_in[i] \in Whitespace) => fn_out = <<>>

\* C9 as stated: on every text the items are non-empty and in source order,
\* white space alone gives the empty list, and segmenting the items joined by
\* newlines gives the same items again.
C9_Original ==
    pc = "seg_done" =>
        /\ SegBasics
        /\ TextSegmenter(Join(fn_out, NL)) = fn_out

\* C9 amended: the items are non-empty and in source order and white space
\* alone gives the empty list on every text; segmenting the items again gives
\* the same items whenever no item begins with white space.
C9_Segmenter ==
    pc = "seg_done" =>
        /\ SegBasics
        /\ (\A i \in 1..Len(fn_out) : Head(fn_out[i]) \notin Whitespace)
              => TextSegmenter(Join(fn_out, NL)) = fn_out

\* "1. A", newline, "A": two items, the first with its numbering stripped
C9_Witness ==
    /\ pc = "seg_done"
    /\ Len(fn_in) = MaxTextLen
    /\ Len(fn_out) = 2
    /\ Join(fn_out, NL) # fn_in
    /\ \A i \in 1..Len(fn_out) : Head(fn_out[i]) \notin Whitespace

(***************************************************************************)
(* Specification of parse_db2 and parse_db4 on every small table           *)
(***************************************************************************)
MaxSecLen   == 4
MaxStkLen   == 7
MaxStkLines == 2
MaxRows     == 6

SecAlphabet == {"A", "3", PIPE, "+", "-", NL, SP}
StkAlphabet == {"A", PIPE, "-"}

\* lines of a stock text: two well-formed, one without a name, one with 3
\* fields, one without a pipe
StkLines ==
    { <<"A", PIPE, "B", PIPE, "3", PIPE, "+", "3">>,
      <<"B", PIPE, "A", PIPE, "3", PIPE, SP, "-", "3">>,
      <<SP, PIPE, "A", PIPE, "3", PIPE, "+", "3">>,
      <<"A", PIPE, "B", PIPE, "3">>,
      <<"A">> }

\* rows of DB 4: no name column, an empty name, a bare name, a full row
RowVariants ==
    { [chucheon_sayu |-> RichText(<<"why">>)],
      [jongmokmyeong |-> RichText(<<>>), chucheon_deunggeup |-> Select(<<"A">>)],
      [jongmokmyeong |-> RichText(<<"A">>), chucheon_deunggeup |-> NoSelect],
      [jongmokmyeong |-> RichText(<<"B">>), chucheon_deunggeup |-> Select(<<"A", "+">>),
       tuja_gigan |-> Select(<<"short">>), chucheon_sayu |-> RichText(<<"why">>)] }

NormInputs ==
    {[fn |-> "parse_db2", sec_raw |-> s, stk_raw |-> <<>>] :
        s \in SeqsUpTo(SecAlphabet, MaxSecLen)}
    \cup {[fn |-> "parse_db2", sec_raw |-> <<>>, stk_raw |-> s] :
        s \in SeqsUpTo(StkAlphabet, MaxStkLen)}
    \cup {[fn |-> "parse_db2", sec_raw |-> <<>>, stk_raw |-> Join(ls, NL)] :
        ls \in SeqsUpTo(StkLines, MaxStkLines)}
    \cup {[fn |-> "parse_db4", rows |-> r] : r \in SeqsUpTo(RowVariants, MaxRows)}

NormInit ==
    /\ pc = "norm_call"
    /\ fn_in \in NormInputs
    /\ fn_out = None
    /\ Idle

ApplyDb2 ==
    /\ pc = "norm_call"
    /\ fn_in.fn = "parse_db2"
    /\ fn_out' = parse_db2(<<LastPage(<<Db2Row(fn_in.sec_raw, fn_in.stk_raw)>>)>>).value
    /\ pc' = "db2_done"
    /\ UNCHANGED <<fn_in, configured, store, dbs, result, output, data_json>>

ApplyDb4 ==
    /\ pc = "norm_call"
    /\ fn_in.fn = "parse_db4"
    /\ fn_out' = parse_db4(<<LastPage(fn_in.rows)>>).value
    /\ pc' = "db4_done"
    /\ UNCHANGED <<fn_in, configured, store, dbs, result, output, data_json>>

NormNext == ApplyDb2 \/ ApplyDb4

SpecNorm == NormInit /\ [][NormNext]_vars

Signs == {"+", "-"}

Names(records) == [i \in 1..Len(records) |-> records[i].name]

Firsts(rows) == [i \in 1..Len(rows) |-> rows[i][1]]

Count(s, Test(_)) == Cardinality({i \in 1..Len(s) : Test(s[i])})

\* C7 as stated: every sector emitted has a change beginning with "+" or "-".
C7_Original ==
    pc = "db2_done" =>
        \A i \in 1..Len(fn_out.sectors) : StartsWith(fn_out.sectors[i].change, Signs)

\* C7 amended: the sectors emitted are the pipe rows with at least 2 fields
\* and a non-empty name, in order; an empty change field stays empty, a
\* non-empty one without a sign gets "+" prepended, one beginning with "+" or
\* "-" is kept; so every change emitted is empty or begins with a sign.
C7_SignedChange ==
    pc = "db2_done" =>
        LET kept == SelectSeq(parse_pipe(fn_in.sec_raw),
                              LAMBDA parts : Len(parts) >= 2 /\ parts[1] # <<>>)
        IN  /\ Len(fn_out.sectors) = Len(kept)
            /\ \A i \in 1..Len(kept) :
                  LET f == kept[i][2]
                      c == fn_out.sectors[i].change
                  IN  /\ f = <<>> => c = <<>>
                      /\ (f # <<>> /\ Head(f) \notin Signs) => c = <<"+">> \o f
                      /\ StartsWith(f, Signs) => c = f
                      /\ c = <<>> \/ Head(c) \in Signs

\* "A|3" and "A|-3": one change gets its sign, the other keeps it
C7_Witness ==
    /\ pc = "db2_done"
    /\ Len(fn_out.sectors) = 1
    /\ fn_out.sectors[1].change = <<"+", "3">>
    /\ fn_out.sectors[1].value = <<3, 0>>

\* C8: every sector, stock and recommendation emitted has a non-empty name;
\* pipe rows with fewer than 2 (sectors) or 4 (stocks) fields or without a
\* name are dropped, the others are all kept, in source order.
C8_NoBlankNames ==
    /\ pc = "db2_done" =>
          LET secs == parse_pipe(fn_in.sec_raw)
              stks == parse_pipe(fn_in.stk_raw)
          IN  /\ \A i \in 1..Len(fn_out.sectors) : fn_out.sectors[i].name # <<>>
              /\ \A i \in 1..Len(fn_out.stocks) : fn_out.stocks[i].name # <<>>
              /\ IsSubSeq(Names(fn_out.sectors), Firsts(secs))
              /\ IsSubSeq(Names(fn_out.stocks), Firsts(stks))
              /\ Len(fn_out.sectors) =
                    Count(secs, LAMBDA parts : Len(parts) >= 2 /\ parts[1] # <<>>)
              /\ Len(fn_out.stocks) =
                    Count(stks, LAMBDA parts : Len(parts) >= 4 /\ parts[1] # <<>>)
    /\ pc = "db4_done" =>
          LET recs  == fn_out.recommendations
              names == [i \in 1..Len(fn_in.rows) |->
                           get_prop(fn_in.rows[i], "jongmokmyeong", "rich_text")]
          IN  /\ \A i \in 1..Len(recs) : recs[i].name # <<>>
              /\ IsSubSeq(Names(recs), names)
              /\ Len(recs) = Count(Take(names, MaxRecs), LAMBDA n : n # <<>>)

\* of two pipe rows the first is dropped and the second is emitted
C8_Witness ==
    /\ pc = "db2_done"
    /\ Len(parse_pipe(fn_in.stk_raw)) = 2
    /\ Len(fn_out.stocks) = 1
    /\ fn_out.stocks[1].name = parse_pipe(fn_in.stk_raw)[2][1]
    /\ ~fn_out.stocks[1].pos

\* C4 as stated: a non-empty recommendations list has exactly one featured
\* entry, and it is the first of the list.
C4_Original ==
    pc = "db4_done" =>
        LET recs == fn_out.recommendations
        IN  recs # <<>> =>
               /\ Cardinality({i \in 1..Len(recs) : recs[i].featured}) = 1
               /\ recs[1].featured

(***************************************************************************)
(* Specification of query_by_date against every short provider script      *)
(***************************************************************************)
MaxMore == 2
MaxPageRows == 2

Cursors == {"c1", "c2"}

\* the rows a provider may put on its i-th page; a row is known by its id
PageRows(i) == {[j \in 1..n |-> [id |-> <<i, j>>]] : n \in 0..MaxPageRows}

RECURSIVE MorePages(_)
\* the scripts of k answers that all say has_more
MorePages(k) ==
    IF k = 0 THEN {<<>>}
    ELSE {Append(s, MorePage(r, c)) : s \in MorePages(k - 1), r \in PageRows(k), c \in Cursors}

\* k answers with has_more = true, then one with has_more = false
QueryScripts ==
    UNION {{Append(s, LastPage(r)) : s \in MorePages(k), r \in PageRows(k + 1)} :
              k \in 0..MaxMore}

QueryInit ==
    /\ pc = "query_call"
    /\ fn_in \in QueryScripts
    /\ fn_out = None
    /\ Idle

QueryApply ==
    /\ pc = "query_call"
    /\ fn_out' = query_by_date(fn_in)
    /\ pc' = "query_done"
    /\ UNCHANGED <<fn_in, configured, store, dbs, result, output, data_json>>

QueryNext == QueryApply

SpecQuery == QueryInit /\ [][QueryNext]_vars

RECURSIVE AllResults(_)
AllResults(script) ==
    IF script = <<>> THEN <<>> ELSE Head(script).results \o AllResults(Tail(script))

\* C5: against k answers with has_more = true followed by one with has_more
\* = false, query_by_date sends exactly k+1 requests, the first without a
\* start_cursor and each later one with the next_cursor of the answer before
\* it, and returns the rows of all pages in page order, each once (none when
\* no page holds a row).
C5_Pagination ==
    pc = "query_done" =>
        LET k == Len(fn_in) - 1
        IN  /\ ~fn_out.raised
            /\ Len(fn_out.requests) = k + 1
            /\ fn_out.requests[1] = None
            /\ \A i \in 1..k : fn_out.requests[i + 1] = fn_in[i].next_cursor
            /\ fn_out.rows = AllResults(fn_in)
            /\ Cardinality({fn_out.rows[i] : i \in 1..Len(fn_out.rows)}) = Len(fn_out.rows)

\* three pages with rows on each and two different cursors
C5_Witness ==
    /\ pc = "query_done"
    /\ Len(fn_in) = 3
    /\ fn_in[1].next_cursor # fn_in[2].next_cursor
    /\ \A i \in 1..3 : fn_in[i].results # <<>>
    /\ Len(fn_out.rows) >= 3

(***************************************************************************)
(* Specification of fetch_indices against every combination of answers     *)
(***************************************************************************)
Meta(price, chartPrev, prevClose) ==
    [failed |-> FALSE, regularMarketPrice |-> price,
     chartPreviousClose |-> chartPrev, previousClose |-> prevClose]

\* 100 after 95; 2512.346 after 2600 (only previousClose given); 50 with no
\* previous close at all
MetaUp   == Meta(100000, 95000, 0)
MetaDown == Meta(2512346, 0, 2600000)
MetaFlat == Meta(50000, 0, 0)

FeedAnswers == {FAIL, MetaUp, MetaDown, MetaFlat}

IdxInit ==
    /\ pc = "idx_call"
    /\ fn_in \in [Symbols -> FeedAnswers]
    /\ fn_out = None
    /\ Idle

IdxApply ==
    /\ pc = "idx_call"
    /\ fn_out' = fetch_indices(fn_in)
    /\ pc' = "idx_done"
    /\ UNCHANGED <<fn_in, configured, store, dbs, result, output, data_json>>

IdxNext == IdxApply

SpecIdx == IdxInit /\ [][IdxNext]_vars

IndexKeys == {"kospi", "kosdaq", "sp500", "nasdaq", "usdkrw", "us10y", "wti", "gold"}

\* what the program prints for the three answers, by rounding digits
QuoteOf(answer, dec) ==
    CASE answer = MetaUp -> [price |-> 100000, change |-> 5000, pct |-> 526, pos |-> TRUE]
      [] answer = MetaFlat -> [price |-> 50000, change |-> 0, pct |-> 0, pos |-> TRUE]
      [] answer = MetaDown /\ dec = 0 ->
            [price |-> 2512000, change |-> 0 - 88000, pct |-> 0 - 337, pos |-> FALSE]
      [] answer = MetaDown /\ dec = 1 ->
            [price |-> 2512300, change |-> 0 - 87700, pct |-> 0 - 337, pos |-> FALSE]
      [] answer = MetaDown /\ dec = 2 ->
            [price |-> 2512350, change |-> 0 - 87650, pct |-> 0 - 337, pos |-> FALSE]
      [] answer = MetaDown /\ dec = 3 ->
            [price |-> 2512346, change |-> 0 - 87654, pct |-> 0 - 337, pos |-> FALSE]

\* C6: whatever subset of the 8 symbols fails, fetch_indices looks all 8 up
\* in the fixed order and returns exactly the 8 keys; a failed symbol maps to
\* price 0, change 0, pct 0, pos true, and every other symbol to the quote of
\* its own answer.
C6_FeedIsolation ==
    pc = "idx_done" =>
        /\ fn_out.lookups = [i \in 1..Len(TARGETS) |-> TARGETS[i].sym]
        /\ DOMAIN fn_out.indices = IndexKeys
        /\ Len(TARGETS) = 8
        /\ \A i \in 1..Len(TARGETS) :
              LET t == TARGETS[i]
                  a == fn_in[t.sym]
              IN  fn_out.indices[t.key] =
                     IF a.failed THEN [price |-> 0, change |-> 0, pct |-> 0, pos |-> TRUE]
                     ELSE QuoteOf(a, t.dec)

\* the first and the last symbol fail, the ones between them do not
C6_Witness ==
    /\ pc = "idx_done"
    /\ fn_in["^KS11"].failed
    /\ fn_in["GC=F"].failed
    /\ fn_in["KRW=X"] = MetaDown
    /\ fn_in["^TNX"] = MetaDown
    /\ fn_in["CL=F"] = MetaUp
    /\ fn_out.indices["wti"].pct = 526

(***************************************************************************)
(* Specification of a whole run of main                                    *)
(***************************************************************************)
\* in a run of main each symbol's lookup fails or is answered
MainFeedAnswers == {FAIL, MetaUp}

Init ==
    /\ pc = "start"
    /\ fn_in = None
    /\ fn_out = None
    /\ configured \in BOOLEAN
    /\ store \in (IF configured THEN Stores ELSE {NoStore})
    /\ dbs = <<>>
    /\ result = <<>>
    /\ output = <<>>
    /\ data_json = None

FetchIndicesStep ==
    /\ pc = "indices"
    /\ \E feed \in [Symbols -> MainFeedAnswers] : IndicesStep(feed)

Next ==
    \/ MainStart
    \/ Discover
    \/ Db1Step
    \/ Db2Step
    \/ Db3Step
    \/ Db4Step
    \/ FetchIndicesStep
    \/ WriteStep

Spec == Init /\ [][Next]_vars

OutputKeys ==
    {"updated_at", "updated_kst", "summary", "market_strength", "sectors", "stocks",
     "news", "recommendations", "indices"}

ListKeys == {"summary", "sectors", "stocks", "news", "recommendations"}

NotionKeys == {"summary", "market_strength", "sectors", "stocks", "news", "recommendations"}

IsList(v) == DOMAIN v = 1..Len(v)

Restrict(d, keys) == [k \in keys \cap DOMAIN d |-> d[k]]

\* the query of the i-th database raises
QueryFails(i) == \E j \in 1..Len(store.scripts[i]) : store.scripts[i][j].failed

Discovered(n) == configured /\ ~store.discovery.failed /\ store.discovery.n = n

\* C1: whatever the configuration, the discovery, the queries and the feed
\* do, the run goes on until data.json is written, and the document written
\* has the 9 top-level keys, a list under each list-valued key and the 8
\* index keys under indices.
C1_SchemaComplete ==
    /\ pc = "done" =>
          /\ DOMAIN data_json = OutputKeys
          /\ \A k \in ListKeys : IsList(data_json[k])
          /\ DOMAIN data_json.indices = IndexKeys
    /\ pc # "done" => data_json = None /\ ENABLED Next

\* every remote call failed: samples and zero-valued indices are written
C1_Witness ==
    /\ pc = "done"
    /\ configured
    /\ store.discovery.failed
    /\ \A k \in IndexKeys : data_json.indices[k] = ZeroQuote
    /\ Restrict(data_json, NotionKeys) = SAMPLE_NOTION

\* the fields of the i-th normalizer in the document written
Fields(i) ==
    CASE i = 1 -> Restrict(data_json, {"summary", "market_strength"})
      [] i = 2 -> Restrict(data_json, {"sectors", "stocks"})
      [] i = 3 -> Restrict(data_json, {"news"})
      [] i = 4 -> Restrict(data_json, {"recommendations"})

\* what the i-th normalizer makes of its table when its query is answered
Live(i) ==
    CASE i = 1 -> parse_db1(store.scripts[1]).value
      [] i = 2 -> parse_db2(store.scripts[2]).value
      [] i = 3 -> Db3Value(store.scripts[3][1])
      [] i = 4 -> parse_db4(store.scripts[4]).value

TypedEmpty(i) ==
    CASE i = 1 -> [summary |-> <<>>, market_strength |-> <<>>]
      [] i = 2 -> [sectors |-> <<>>, stocks |-> <<>>]
      [] i = 3 -> [news |-> <<>>]
      [] i = 4 -> [recommendations |-> <<>>]

\* C2 as stated: when the query of one normalizer fails, its fields are
\* typed-empty and the fields of the other normalizers have their live values.
C2_Original ==
    (pc = "done" /\ configured /\ ~store.discovery.failed /\ store.discovery.n >= 4) =>
        \A i \in 1..4 :
            (QueryFails(i) /\ \A j \in (1..4) \ {i} : ~QueryFails(j)) =>
                /\ Fields(i) = TypedEmpty(i)
                /\ \A j \in (1..4) \ {i} : Fields(j) = Live(j)

\* C2 amended: only the failure of parse_db3's query is contained: news is
\* then empty and the other normalizers' fields keep their live values.  A
\* failure of the query of parse_db1, parse_db2 or parse_db4 leaves
\* fetch_notion, and all six document-store fields are the sample dataset.
C2_Containment ==
    (pc = "done" /\ configured /\ ~store.discovery.failed /\ store.discovery.n >= 4) =>
        IF \E i \in {1, 2, 4} : QueryFails(i)
        THEN Restrict(data_json, NotionKeys) = SAMPLE_NOTION
        ELSE /\ \A j \in {1, 2, 4} : Fields(j) = Live(j)
             /\ Fields(3) = IF QueryFails(3) THEN TypedEmpty(3) ELSE Live(3)

\* the news query fails between three answered ones
C2_Witness ==
    /\ pc = "done"
    /\ Discovered(4)
    /\ QueryFails(3)
    /\ \A j \in {1, 2, 4} : ~QueryFails(j)
    /\ data_json.news = <<>>
    /\ data_json.summary # <<>>
    /\ data_json.sectors # <<>>
    /\ data_json.recommendations # <<>>
    /\ data_json.recommendations # _sample_rec

\* C3 as stated: with fewer than 4 tables discovered and no remote failure,
\* recommendations is the sample set and summary, sectors, stocks and news
\* are empty.
C3_Original ==
    (pc = "done" /\ configured /\ ~store.discovery.failed /\ store.discovery.n < 4
        /\ \A i \in 1..store.discovery.n : ~QueryFails(i)) =>
            /\ data_json.recommendations = _sample_rec
            /\ data_json.summary = <<>>
            /\ data_json.sectors = <<>>
            /\ data_json.stocks = <<>>
            /\ data_json.news = <<>>

\* C3 amended: with fewer than 4 tables discovered and no remote failure,
\* recommendations is the sample set exactly; the fields of the other three
\* normalizers are what they make of the discovered tables, typed-empty for a
\* table that was not discovered, and are not replaced by sample data.
C3_FewerTables ==
    (pc = "done" /\ configured /\ ~store.discovery.failed /\ store.discovery.n < 4
        /\ \A i \in 1..store.discovery.n : ~QueryFails(i)) =>
            /\ data_json.recommendations = _sample_rec
            /\ \A i \in 1..3 :
                  /\ Fields(i) = IF i <= store.discovery.n THEN Live(i) ELSE TypedEmpty(i)
                  /\ Fields(i) # Restrict(SAMPLE_NOTION, DOMAIN Fields(i))

\* three tables with rows for today: live fields beside sample recommendations
C3_Witness ==
    /\ pc = "done"
    /\ Discovered(3)
    /\ \A i \in 1..3 : ~QueryFails(i)
    /\ data_json.recommendations = _sample_rec
    /\ Len(data_json.summary) = 3
    /\ Len(data_json.sectors) = 2
    /\ Len(data_json.news) = 2

\* C10: the six document-store fields of the output are all those of one
\* completed fetch_notion result or all those of SAMPLE_NOTION; until
\* fetch_notion has returned or failed the output holds none of them.
C10_AllOrNothing ==
    /\ pc \in {"discover", "db1", "db2", "db3", "db4"} => DOMAIN output = DOMAIN Timestamps
    /\ pc \in {"indices", "write", "done"} =>
          LET part == Restrict(output, NotionKeys)
          IN  \/ part = SAMPLE_NOTION
              \/ DOMAIN result = NotionKeys /\ part = result
    /\ pc = "done" => Restrict(data_json, NotionKeys) = Restrict(output, NotionKeys)

\* the second query fails after the first table gave live values
C10_Witness ==
    /\ pc = "done"
    /\ Discovered(4)
    /\ ~QueryFails(1)
    /\ QueryFails(2)
    /\ result # <<>>
    /\ result.summary # <<>>
    /\ data_json.summary = SAMPLE_NOTION.summary
    /\ Restrict(data_json, NotionKeys) = SAMPLE_NOTION

====
